---- MODULE Spec2Model ----
(***************************************************************************)
(* State-machine model of src/src/services/QueueService.ts:                *)
(*   - QueueService        (priority job queues, retry, concurrency limit) *)
(*   - NotificationService (FIFO notification queue, channel fan-out)      *)
(* Node.js runs each callback to completion, so every action below is one  *)
(* synchronous stretch of code between two suspension points (await,       *)
(* setTimeout, setInterval).                                               *)
(***************************************************************************)
EXTENDS Integers, Sequences, FiniteSets, TLC

(***************************************************************************)
(* Bounds of the model                                                     *)
(***************************************************************************)
MaxJobs == 3            \* number of addJob calls explored
MaxThrowing == 1        \* number of lifecycle events given a throwing listener
MaxNotifications == 2   \* number of sendNotification calls explored
MaxBurst == 3           \* number of sendNotification calls explored where payloads queue up
MaxWebhooks == 2        \* number of requests to the webhook route explored

\* the QueueConfig values handed to getInstance(config), lines 79-84 (small
\* values, so that the explored jobs reach the concurrency limit and the
\* attempt limit); retryDelay is the default of line 82
Configs == [maxConcurrent : {1, 2}, retryAttempts : {1, 2}, retryDelay : {1000}]

JobTypes == {"a", "b"}
Priorities == {0, 2}                     \* JobPriority.LOW, JobPriority.HIGH
\* error.message of the error a processor throws on the job's n-th attempt
\* (distinct per attempt, so that the last failure differs from the earlier ones)
ErrorMessage(n) == <<"attempt failed", n>>
ListenerError == <<"listener failed">>   \* message of an error thrown by a listener
NoError == <<>>                          \* job.error is undefined
NoJob == 0                               \* undefined (no job), as an id
Undefined == [id |-> NoJob]              \* undefined, where a Job object is expected

\* JobStatus enum, lines 7-13
PENDING == "pending"
PROCESSING == "processing"
COMPLETED == "completed"
FAILED == "failed"
RETRYING == "retrying"

\* lifecycle events whose listeners run inside processJob
LifecycleEvents == {"job:processing", "job:completed", "job:retrying", "job:failed"}

VARIABLES
    config,      \* QueueService.config, fixed at construction
    jobs,        \* the Job objects created so far: id -> record (objects are shared by reference)
    queues,      \* QueueService.queues: Map in insertion order, sequence of [type, items]
    processors,  \* QueueService.processors: the job types that have a processor
    processing,  \* QueueService.processing: Set of job types
    activeJobs,  \* QueueService.activeJobs: the ids that are keys of the Map
    intervalId,  \* QueueService.intervalId is set (the tick timer exists)
    tickTimers,  \* the number of setInterval timers created and not cleared
    lastStart,   \* history: what the last startProcessing call did
    invoked,     \* ids of jobs whose processor promise is pending (await at line 271)
    timers,      \* pending retry timers (setTimeout of line 303): records [id, delay]
    throwing,    \* lifecycle events that have a listener which throws
    lastFail,    \* history: id -> message of the job's last processor failure
    cleared,     \* history: ids of the jobs clearQueues removed from a queue
    dropped,     \* history: ids of the jobs a tick removed for want of a processor
    emitted,     \* history: id -> the lifecycle events emitted with the job, each
                 \* with the snapshot of the job at emission time
    channels,      \* NotificationService.channels: channel id -> configuration
    notifications, \* the payload objects handed to sendNotification so far: n -> record
    queue,         \* NotificationService.queue: sequence of payloads (their n)
    nsProcessing,  \* NotificationService.processing
    loops,         \* the processQueue invocations inside their while loop (lines 535-540)
    deliveries,    \* history: <<n, channel id>> -> "pending" | "ok" | "failed"
    discarded,     \* history: the payloads (their n) clearQueue removed from the queue
    calls,         \* the promise of each sendNotification call: n -> "awaiting" | "resolved" | "rejected"
    subscription,  \* the listener one subscribe(types, callback) call registers: its
                   \* types and whether it is "unregistered", "registered" or "removed"
    heard,         \* history: n -> the state of the subscription when the payload was
                   \* pushed and when 'notification' was emitted for it, and the
                   \* number of times the callback was invoked with it
    written,       \* history: channel id -> the configuration of the last addChannel
                   \* call with that id, for the ids not removed since
    matchedAtPush, \* history, kept under RegistrySpec only: n -> the channels that
                   \* matched the payload when it was pushed
    webhooks       \* the requests POSTed to the webhook route so far, each with
                   \* how far its handler has come, its response, and the calls
                   \* it made: w -> record

qvars == <<jobs, queues, processors, processing, activeJobs, intervalId, tickTimers, lastStart, invoked,
           timers, throwing, lastFail, cleared, dropped, emitted>>

nvars == <<channels, notifications, queue, nsProcessing, loops, deliveries, discarded, calls,
           subscription, heard, written, matchedAtPush, webhooks>>

vars == <<config, qvars, nvars>>

(***************************************************************************)
(* Helpers over the queues Map                                             *)
(***************************************************************************)
QueueTypes == {queues[i].type : i \in 1..Len(queues)}

SeqToSet(s) == {s[i] : i \in 1..Len(s)}

Queued == UNION {SeqToSet(queues[i].items) : i \in 1..Len(queues)}

\* queue.sort((a, b) => b.priority - a.priority) over the job objects js:
\* Array.prototype.sort is stable, computed here as a stable insertion sort
\* on priority descending.
RECURSIVE InsertByPriority(_, _, _)
InsertByPriority(js, s, id) ==
    IF s = <<>> THEN <<id>>
    ELSE IF js[Head(s)].priority >= js[id].priority
         THEN <<Head(s)>> \o InsertByPriority(js, Tail(s), id)
         ELSE <<id>> \o s

\* faulty variant of SortByPriority: the array is left in push order
SortNothing(js, s) == s

RECURSIVE SortByPriority(_, _)
SortByPriority(js, s) ==
    IF s = <<>> THEN <<>>
    ELSE InsertByPriority(js, SortByPriority(js, SubSeq(s, 1, Len(s) - 1)), s[Len(s)])

\* queue.push(job); queue.sort(...) on the queue of `type` (lines 138-142, 304-308)
PushSorted(js, qs, type, id) ==
    [i \in 1..Len(qs) |->
        IF qs[i].type = type
        THEN [qs[i] EXCEPT !.items = SortByPriority(js, Append(qs[i].items, id))]
        ELSE qs[i]]

RECURSIVE Without(_, _)
Without(s, id) ==
    IF s = <<>> THEN <<>>
    ELSE IF Head(s) = id THEN Tail(s)
         ELSE <<Head(s)>> \o Without(Tail(s), id)

\* removeJobFromQueue(job), lines 328-336
removeJobFromQueue(id) ==
    [i \in 1..Len(queues) |->
        IF queues[i].type = jobs[id].type
        THEN [queues[i] EXCEPT !.items = Without(queues[i].items, id)]
        ELSE queues[i]]

\* this.emit(event, job) throws when a listener of the event throws
Throws(event) == event \in throwing

\* faulty variant of emit: 'job:retrying' is not emitted
emitExceptRetrying(log, event, job) ==
    IF event = "job:retrying" THEN log
    ELSE [log EXCEPT ![job.id] =
            Append(@, [event |-> event, status |-> job.status,
                       attempts |-> job.attempts, error |-> job.error])]

\* this.emit(event, job), lines 151, 268, 278, 300, 317: the listeners of the
\* event receive the job object as it is at this moment
emit(log, event, job) ==
    [log EXCEPT ![job.id] =
        Append(@, [event |-> event, status |-> job.status,
                   attempts |-> job.attempts, error |-> job.error])]

(***************************************************************************)
(* QueueService                                                            *)
(***************************************************************************)
\* constructor, lines 71-87 (startProcessing sets the interval)
QueueInit(cfg) ==
    /\ config = cfg
    /\ jobs = <<>>
    /\ queues = <<>>
    /\ processors = {}
    /\ processing = {}
    /\ activeJobs = {}
    /\ intervalId = TRUE
    /\ tickTimers = 1
    /\ lastStart = "constructor"
    /\ invoked = {}
    /\ timers = {}
    /\ throwing = {}
    /\ lastFail = <<>>
    /\ cleared = {}
    /\ dropped = {}
    /\ emitted = <<>>

\* registerProcessor(type, processor), lines 102-108
registerProcessor(type) ==
    /\ type \notin processors
    /\ processors' = processors \cup {type}
    /\ UNCHANGED <<config, nvars>>
    /\ UNCHANGED <<jobs, queues, processing, activeJobs, intervalId, tickTimers, lastStart, invoked,
                   timers, throwing, lastFail, cleared, dropped, emitted>>

\* EventEmitter.on(event, listener) with a listener that throws
on(event) ==
    /\ event \notin throwing
    /\ Cardinality(throwing) < MaxThrowing
    /\ throwing' = throwing \cup {event}
    /\ UNCHANGED <<config, nvars>>
    /\ UNCHANGED <<jobs, queues, processors, processing, activeJobs, intervalId, tickTimers, lastStart,
                   invoked, timers, lastFail, cleared, dropped, emitted>>

\* addJob(type, data, priority), lines 113-153
addJob(type, priority) ==
    LET jobId == Len(jobs) + 1
        job == [id |-> jobId, type |-> type, priority |-> priority,
                status |-> PENDING, attempts |-> 0, maxAttempts |-> config.retryAttempts,
                error |-> NoError]
        withQueue == IF type \in QueueTypes THEN queues
                     ELSE Append(queues, [type |-> type, items |-> <<>>])
    IN  /\ Len(jobs) < MaxJobs
        /\ jobs' = Append(jobs, job)
        /\ lastFail' = Append(lastFail, NoError)
        /\ queues' = PushSorted(Append(jobs, job), withQueue, type, jobId)
        /\ emitted' = emit(Append(emitted, <<>>), "job:added", job)
        /\ UNCHANGED <<config, nvars>>
        /\ UNCHANGED <<processors, processing, activeJobs, intervalId, tickTimers, lastStart, invoked,
                       timers, throwing, cleared, dropped>>

\* getJobStatus(jobId), lines 158-171
getJobStatus(jobId) ==
    IF jobId \in activeJobs THEN jobs[jobId]
    ELSE IF jobId \in Queued THEN jobs[jobId]
    ELSE Undefined

\* faulty variant of startProcessing: no check of intervalId before setInterval
startProcessingUnguarded ==
    /\ intervalId' = TRUE
    /\ tickTimers' = tickTimers + 1
    /\ lastStart' = IF intervalId THEN "already started" ELSE "restarted"
    /\ UNCHANGED <<config, nvars>>
    /\ UNCHANGED <<jobs, queues, processors, processing, activeJobs, invoked,
                   timers, throwing, lastFail, cleared, dropped, emitted>>

\* startProcessing(), lines 176-188, called on the constructed instance (the
\* method is private and its only call in the repository is the constructor's)
startProcessing ==
    /\ intervalId' = TRUE
    /\ tickTimers' = IF intervalId THEN tickTimers ELSE tickTimers + 1
    /\ lastStart' = IF intervalId THEN "already started" ELSE "restarted"
    /\ UNCHANGED <<config, nvars>>
    /\ UNCHANGED <<jobs, queues, processors, processing, activeJobs, invoked,
                   timers, throwing, lastFail, cleared, dropped, emitted>>

\* stopProcessing(), lines 193-199
stopProcessing ==
    /\ intervalId
    /\ intervalId' = FALSE
    /\ tickTimers' = tickTimers - 1
    /\ UNCHANGED lastStart
    /\ UNCHANGED <<config, nvars>>
    /\ UNCHANGED <<jobs, queues, processors, processing, activeJobs, invoked,
                   timers, throwing, lastFail, cleared, dropped, emitted>>

\* getNextJob(), lines 231-248: scan of the Map in insertion order
RECURSIVE getNextJobFrom(_, _, _)
getNextJobFrom(i, highestPriority, highestPriorityJob) ==
    IF i > Len(queues) THEN highestPriorityJob
    ELSE IF Len(queues[i].items) = 0 \/ queues[i].type \in processing
         THEN getNextJobFrom(i + 1, highestPriority, highestPriorityJob)
         ELSE LET job == queues[i].items[1]
              IN  IF jobs[job].priority > highestPriority
                  THEN getNextJobFrom(i + 1, jobs[job].priority, job)
                  ELSE getNextJobFrom(i + 1, highestPriority, highestPriorityJob)

\* faulty variant of getNextJob: the comparison of line 241 written as >=
RECURSIVE getNextJobFromLast(_, _, _)
getNextJobFromLast(i, highestPriority, highestPriorityJob) ==
    IF i > Len(queues) THEN highestPriorityJob
    ELSE IF Len(queues[i].items) = 0 \/ queues[i].type \in processing
         THEN getNextJobFromLast(i + 1, highestPriority, highestPriorityJob)
         ELSE LET job == queues[i].items[1]
              IN  IF jobs[job].priority >= highestPriority
                  THEN getNextJobFromLast(i + 1, jobs[job].priority, job)
                  ELSE getNextJobFromLast(i + 1, highestPriority, highestPriorityJob)

getNextJobLastOnTies == getNextJobFromLast(1, -1, NoJob)

getNextJob == getNextJobFrom(1, -1, NoJob)

\* faulty variant of CanProcessMore: the comparison of line 206 written as >
CanProcessMoreOffByOne == ~(Cardinality(activeJobs) > config.maxConcurrent)

\* line 206: the tick returns at once unless a concurrency slot is free
CanProcessMore == ~(Cardinality(activeJobs) >= config.maxConcurrent)

\* faulty variant of ReleaseType: the type's mark is kept when the processor settles
ReleaseTypeNever(type) == processing

\* finally block, lines 320-322
ReleaseType(type) == processing \ {type}

\* faulty variant of processJob: the type is not marked in flight (line 254
\* is missing)
processJobWithoutMark(id) ==
    /\ processing' = processing
    /\ queues' = removeJobFromQueue(id)
    /\ activeJobs' = activeJobs \cup {id}
    /\ jobs' = [jobs EXCEPT ![id].status = PROCESSING,
                            ![id].attempts = jobs[id].attempts + 1]
    /\ emitted' = emit(emitted, "job:processing", jobs'[id])
    /\ invoked' = IF Throws("job:processing") THEN invoked ELSE invoked \cup {id}
    /\ UNCHANGED <<timers>>

\* processJob(job, processor) up to the await of line 271 (lines 253-271)
processJob(id) ==
    /\ processing' = processing \cup {jobs[id].type}
    /\ queues' = removeJobFromQueue(id)
    /\ activeJobs' = activeJobs \cup {id}
    /\ jobs' = [jobs EXCEPT ![id].status = PROCESSING,
                            ![id].attempts = jobs[id].attempts + 1]
    /\ emitted' = emit(emitted, "job:processing", jobs'[id])
       \* a throwing 'job:processing' listener rejects processJob before the try
       \* block: the processor is never called and nothing is released
    /\ invoked' = IF Throws("job:processing") THEN invoked ELSE invoked \cup {id}
    /\ UNCHANGED <<timers>>

\* faulty variant of dropJob: the job is marked active before it is dropped
dropJobKeepingSlot(job) ==
    /\ queues' = removeJobFromQueue(job)
    /\ dropped' = dropped \cup {job}
    /\ activeJobs' = activeJobs \cup {job}
    /\ UNCHANGED <<jobs, processing, invoked, timers, emitted>>

\* no processor for the job's type, lines 218-222: the job is removed from
\* its queue and the tick returns
dropJob(job) ==
    /\ queues' = removeJobFromQueue(job)
    /\ dropped' = dropped \cup {job}
    /\ UNCHANGED <<jobs, processing, activeJobs, invoked, timers, emitted>>

\* faulty variant of processJobs: the early return of line 206 is missing
processJobsIgnoringLimit ==
    /\ intervalId
    /\ UNCHANGED <<config, nvars>>
    /\ UNCHANGED <<processors, intervalId, tickTimers, lastStart, throwing, lastFail, cleared>>
    /\ LET job == getNextJob
       IN  IF job = NoJob
           THEN UNCHANGED <<jobs, queues, processing, activeJobs, invoked, timers,
                            dropped, emitted>>
           ELSE IF jobs[job].type \notin processors
                THEN dropJob(job)
                ELSE processJob(job) /\ UNCHANGED dropped

\* one tick of the interval: processJobs(), lines 204-226
processJobs ==
    /\ intervalId
    /\ UNCHANGED <<config, nvars>>
    /\ UNCHANGED <<processors, intervalId, tickTimers, lastStart, throwing, lastFail, cleared>>
    /\ IF ~CanProcessMore
       THEN UNCHANGED <<jobs, queues, processing, activeJobs, invoked, timers, dropped,
                        emitted>>
       ELSE LET job == getNextJob
            IN  IF job = NoJob
                THEN UNCHANGED <<jobs, queues, processing, activeJobs, invoked, timers,
                                 dropped, emitted>>
                ELSE IF jobs[job].type \notin processors
                     THEN dropJob(job)
                     ELSE processJob(job) /\ UNCHANGED dropped

\* the activeJobs Map after the job settled as COMPLETED (lines 273-278)
ActiveAfterCompleted(id) == activeJobs

\* the activeJobs Map after the job settled as FAILED (lines 312-318): the
\* delete of line 318 is skipped when the 'job:failed' listener throws
ActiveAfterFailed(id) ==
    IF Throws("job:failed") THEN activeJobs ELSE activeJobs \ {id}

\* faulty variant of BackoffDelay: the delay doubles with every attempt
BackoffDelayDoubling(attempts) == config.retryDelay * 2 ^ (attempts - 1)

\* this.config.retryDelay * job.attempts, line 310
BackoffDelay(attempts) == config.retryDelay * attempts

\* faulty variant of ShouldRetry: the comparison of line 292 written as <=
ShouldRetryOffByOne(job) == job.attempts <= job.maxAttempts

\* line 292
ShouldRetry(job) == job.attempts < job.maxAttempts

\* catch block of processJob, lines 279-319, entered with the job objects js
\* and the events emitted so far
catchError(js, log, id, errorMessage) ==
    IF ShouldRetry(js[id])
    THEN /\ jobs' = [js EXCEPT ![id].error = errorMessage, ![id].status = RETRYING]
         /\ emitted' = emit(log, "job:retrying", jobs'[id])
            \* a throwing 'job:retrying' listener skips the setTimeout of line 303
         /\ timers' = IF Throws("job:retrying") THEN timers
                      ELSE timers \cup {[id |-> id, delay |-> BackoffDelay(js[id].attempts)]}
         /\ UNCHANGED activeJobs
    ELSE /\ jobs' = [js EXCEPT ![id].error = errorMessage, ![id].status = FAILED]
         /\ emitted' = emit(log, "job:failed", jobs'[id])
         /\ activeJobs' = ActiveAfterFailed(id)
         /\ UNCHANGED timers

\* the processor's promise resolves: lines 271-278, then finally
processorResolves(id) ==
    /\ id \in invoked
    /\ invoked' = invoked \ {id}
    /\ LET completed == [jobs EXCEPT ![id].status = COMPLETED]
           log == emit(emitted, "job:completed", completed[id])
       IN  IF Throws("job:completed")
           THEN \* the emit of line 278 is inside the try block
                catchError(completed, log, id, ListenerError)
           ELSE /\ jobs' = completed
                /\ emitted' = log
                /\ activeJobs' = ActiveAfterCompleted(id)
                /\ UNCHANGED timers
    /\ processing' = ReleaseType(jobs[id].type)
    /\ UNCHANGED <<config, nvars>>
    /\ UNCHANGED <<queues, processors, intervalId, tickTimers, lastStart, throwing, lastFail, cleared, dropped>>

\* faulty variant of processorRejects: the type is released on success only
\* (line 321 moved into the try block)
processorRejectsKeepingMark(id) ==
    /\ id \in invoked
    /\ invoked' = invoked \ {id}
    /\ catchError(jobs, emitted, id, ErrorMessage(jobs[id].attempts))
    /\ processing' = processing
    /\ lastFail' = [lastFail EXCEPT ![id] = ErrorMessage(jobs[id].attempts)]
    /\ UNCHANGED <<config, nvars>>
    /\ UNCHANGED <<queues, processors, intervalId, tickTimers, lastStart, throwing, cleared, dropped>>

\* the processor's promise rejects (or the processor throws): lines 279-322
processorRejects(id) ==
    /\ id \in invoked
    /\ invoked' = invoked \ {id}
    /\ catchError(jobs, emitted, id, ErrorMessage(jobs[id].attempts))
    /\ processing' = ReleaseType(jobs[id].type)
    /\ lastFail' = [lastFail EXCEPT ![id] = ErrorMessage(jobs[id].attempts)]
    /\ UNCHANGED <<config, nvars>>
    /\ UNCHANGED <<queues, processors, intervalId, tickTimers, lastStart, throwing, cleared, dropped>>

\* faulty variant of retryTimer: the job is re-queued but stays in the active set
retryTimerKeepingActive(t) ==
    /\ t \in timers
    /\ timers' = timers \ {t}
    /\ queues' = IF jobs[t.id].type \in QueueTypes
                 THEN PushSorted(jobs, queues, jobs[t.id].type, t.id)
                 ELSE queues
    /\ UNCHANGED <<config, nvars>>
    /\ UNCHANGED <<jobs, processors, processing, activeJobs, intervalId, tickTimers, lastStart, invoked, throwing,
                   lastFail, cleared, dropped, emitted>>

\* the retry timer fires: callback of setTimeout, lines 303-310
retryTimer(t) ==
    /\ t \in timers
    /\ timers' = timers \ {t}
    /\ queues' = IF jobs[t.id].type \in QueueTypes
                 THEN PushSorted(jobs, queues, jobs[t.id].type, t.id)
                 ELSE queues
    /\ activeJobs' = activeJobs \ {t.id}
    /\ UNCHANGED <<config, nvars>>
    /\ UNCHANGED <<jobs, processors, processing, intervalId, tickTimers, lastStart, invoked, throwing, lastFail,
                   cleared, dropped, emitted>>

\* faulty variant of clearQueues: the in-flight bookkeeping is reset as well
clearQueuesAndActive ==
    /\ queues' = [i \in 1..Len(queues) |-> [queues[i] EXCEPT !.items = <<>>]]
    /\ cleared' = cleared \cup Queued
    /\ activeJobs' = {}
    /\ processing' = {}
    /\ UNCHANGED <<config, nvars>>
    /\ UNCHANGED <<jobs, processors, intervalId, tickTimers, lastStart, invoked, timers, throwing, lastFail,
                   dropped, emitted>>

\* clearQueues(), lines 369-374
clearQueues ==
    /\ queues' = [i \in 1..Len(queues) |-> [queues[i] EXCEPT !.items = <<>>]]
    /\ cleared' = cleared \cup Queued
    /\ UNCHANGED <<config, nvars>>
    /\ UNCHANGED <<jobs, processors, processing, activeJobs, intervalId, tickTimers, lastStart, invoked,
                   timers, throwing, lastFail, dropped, emitted>>

(***************************************************************************)
(* NotificationService                                                     *)
(***************************************************************************)
\* the payloads handed to sendNotification (type and priority; topic and data
\* are not read by the service)
Payloads == { [type |-> "session_request", priority |-> "normal"],
              [type |-> "session_delete", priority |-> "high"] }
NoFilters == {"undefined"}               \* channel.filters is undefined (no notification type has this name)

\* the channel configurations handed to addChannel
ChannelConfigs ==
    { [id |-> "websocket", type |-> "websocket", enabled |-> TRUE, filters |-> NoFilters],
      [id |-> "webhook", type |-> "webhook", enabled |-> TRUE, filters |-> NoFilters],
      [id |-> "webhook", type |-> "webhook", enabled |-> FALSE, filters |-> NoFilters],
      [id |-> "audit", type |-> "webhook", enabled |-> TRUE, filters |-> {"session_delete"}] }

ChannelIds == {c.id : c \in ChannelConfigs}

\* results of the fetch of line 620: response.ok, a non-2xx status, a transport error
FetchResults == {"ok", "non-2xx", "transport error"}

\* constructor and initializeDefaultChannels, lines 426-467: the webhook
\* channel exists when process.env.WEBHOOK_URL is set
NotificationInit(webhookUrl) ==
    /\ channels = [id \in (IF webhookUrl THEN {"websocket", "webhook"} ELSE {"websocket"}) |->
                     [id |-> id, type |-> id, enabled |-> TRUE, filters |-> NoFilters]]
    /\ notifications = <<>>
    /\ queue = <<>>
    /\ nsProcessing = FALSE
    /\ loops = {}
    /\ deliveries = <<>>
    /\ discarded = {}
    /\ calls = <<>>
    /\ subscription = [state |-> "unregistered", types |-> {}]
    /\ heard = <<>>
    /\ written = channels
    /\ matchedAtPush = <<>>
    /\ webhooks = <<>>

\* faulty variant of addChannel: the configuration an id already has is kept
addChannelFirstWins(channel) ==
    /\ IF channel.id \in DOMAIN channels THEN channels[channel.id] # channel ELSE TRUE
    /\ channels' = [id \in DOMAIN channels \cup {channel.id} |->
                      IF id \in DOMAIN channels THEN channels[id] ELSE channel]
    /\ written' = [id \in DOMAIN written \cup {channel.id} |->
                     IF id = channel.id THEN channel ELSE written[id]]
    /\ UNCHANGED <<config, qvars>>
    /\ UNCHANGED <<notifications, queue, nsProcessing, loops, deliveries, discarded, calls,
                   subscription, heard, matchedAtPush, webhooks>>

\* addChannel(channel), lines 472-478: Map.set
addChannel(channel) ==
    /\ IF channel.id \in DOMAIN channels THEN channels[channel.id] # channel ELSE TRUE
    /\ channels' = [id \in DOMAIN channels \cup {channel.id} |->
                      IF id = channel.id THEN channel ELSE channels[id]]
    /\ written' = [id \in DOMAIN written \cup {channel.id} |->
                     IF id = channel.id THEN channel ELSE written[id]]
    /\ UNCHANGED <<config, qvars>>
    /\ UNCHANGED <<notifications, queue, nsProcessing, loops, deliveries, discarded, calls,
                   subscription, heard, matchedAtPush, webhooks>>

\* removeChannel(channelId), lines 483-486: Map.delete
removeChannel(channelId) ==
    /\ channelId \in DOMAIN channels
    /\ channels' = [id \in DOMAIN channels \ {channelId} |-> channels[id]]
    /\ written' = [id \in DOMAIN written \ {channelId} |-> written[id]]
    /\ UNCHANGED <<config, qvars>>
    /\ UNCHANGED <<notifications, queue, nsProcessing, loops, deliveries, discarded, calls,
                   subscription, heard, matchedAtPush, webhooks>>

\* faulty variant of Matches: the filters of the channel are not consulted
MatchesIgnoringFilters(channel, type) == channel.enabled

\* lines 553-558: the channel is not skipped for a notification of this type
\* (an empty filters array is truthy and includes no type)
Matches(channel, type) ==
    /\ channel.enabled
    /\ ~(channel.filters # NoFilters /\ type \notin channel.filters)

\* the channels deliverNotification hands the notification to, lines 552-569
Recipients(type) == {id \in DOMAIN channels : Matches(channels[id], type)}

\* deliverToChannel, lines 577-601: only the webhook strategy waits for
\* something outside the process (fetch); the others settle with no I/O
AwaitsFetch(id) == channels[id].type = "webhook"

\* deliverNotification(notification) up to the await of line 571: every
\* matching channel's strategy is started; the history records the hand-over
Delivered(payloads, n) ==
    [d \in DOMAIN deliveries \cup {<<n, id>> : id \in Recipients(payloads[n].type)} |->
        IF d \in DOMAIN deliveries THEN deliveries[d]
        ELSE IF AwaitsFetch(d[2]) THEN "pending" ELSE "ok"]

\* the deliveryPromises of line 550 that are not settled when line 571 awaits
Pending(payloads, n) == {id \in Recipients(payloads[n].type) : AwaitsFetch(id)}

\* line 512: sendNotification starts processQueue
StartsDrain == ~nsProcessing

\* faulty variant of DrainGuard: line 528 written as length <= 1
DrainGuardSinglePayload(q) == nsProcessing \/ Len(q) <= 1

\* line 528: processQueue returns at once
DrainGuard(q) == nsProcessing \/ Len(q) = 0

\* faulty variant of DrainFlag: the flag is not raised
DrainFlagForgotten == FALSE

\* line 532: this.processing = true
DrainFlag == TRUE

\* faulty variant of ChannelErrorEscapes: deliveries awaited with neither
\* the .catch nor the settle-all
ChannelErrorEscapesAlways == TRUE

\* a rejected channel delivery reaches the caller of deliverNotification only
\* past the .catch of lines 561-566 and the Promise.allSettled of line 571
ChannelErrorEscapes == FALSE

\* the types arrays handed to subscribe
SubscribedTypes == {{"session_delete"}, {"session_request", "session_delete"}}

\* subscribe(types, callback), lines 667-678: this.on('notification', listener)
subscribe(types) ==
    /\ subscription.state = "unregistered"
    /\ subscription' = [state |-> "registered", types |-> types]
    /\ UNCHANGED <<config, qvars>>
    /\ UNCHANGED <<channels, notifications, queue, nsProcessing, loops, deliveries,
                   discarded, calls, heard, written, matchedAtPush, webhooks>>

\* the function subscribe returned, lines 680-682: this.off('notification', listener)
unsubscribe ==
    /\ subscription.state = "registered"
    /\ subscription' = [subscription EXCEPT !.state = "removed"]
    /\ UNCHANGED <<config, qvars>>
    /\ UNCHANGED <<channels, notifications, queue, nsProcessing, loops, deliveries,
                   discarded, calls, heard, written, matchedAtPush, webhooks>>

\* faulty variant of Listens: the types of the subscription are not consulted
ListensToAll(type) == subscription.state = "registered"

\* the listener is registered and passes the payload on to the callback, lines 671-675
Listens(type) == subscription.state = "registered" /\ type \in subscription.types

\* this.emit('notification', payload), line 517, for the n-th payload
emitNotification(h, payloads, n) ==
    [h EXCEPT ![n] = [pushed |-> h[n].pushed,
                      emitted |-> subscription.state,
                      count |-> h[n].count + (IF Listens(payloads[n].type) THEN 1 ELSE 0)]]

\* faulty variant of enqueueNotification: the call starts a drain although
\* one is running (the tests of lines 512 and 528 read the length of the
\* queue only)
enqueueNotificationDrainsAlways(type, priority) ==
    LET n == Len(notifications) + 1
        payloads == Append(notifications, [type |-> type, priority |-> priority])
        pushed == Append(queue, n)
        pushedHeard == Append(heard, [pushed |-> subscription.state,
                                      emitted |-> "not yet", count |-> 0])
        head == Head(pushed)
    IN  /\ notifications' = payloads
        /\ UNCHANGED <<config, qvars>>
        /\ UNCHANGED <<channels, discarded, subscription, written>>
        /\ nsProcessing' = DrainFlag
        /\ queue' = Tail(pushed)
        /\ loops' = loops \cup
             {[caller |-> n, notification |-> head, pending |-> Pending(payloads, head)]}
        /\ deliveries' = Delivered(payloads, head)
        /\ calls' = Append(calls, "awaiting")
        /\ heard' = pushedHeard

\* the body of sendNotification(payload), lines 491-522, up to its first
\* suspension
enqueueNotification(type, priority) ==
    LET n == Len(notifications) + 1
        payloads == Append(notifications, [type |-> type, priority |-> priority])
        pushed == Append(queue, n)
        pushedHeard == Append(heard, [pushed |-> subscription.state,
                                      emitted |-> "not yet", count |-> 0])
    IN  /\ notifications' = payloads
        /\ UNCHANGED <<config, qvars>>
        /\ UNCHANGED <<channels, discarded, subscription, written>>
        /\ IF StartsDrain /\ ~DrainGuard(pushed)
           THEN \* processQueue: lines 532-539, shift and deliver the head
                LET head == Head(pushed)
                IN  /\ nsProcessing' = DrainFlag
                    /\ queue' = Tail(pushed)
                    /\ loops' = loops \cup
                         {[caller |-> n, notification |-> head,
                           pending |-> Pending(payloads, head)]}
                    /\ deliveries' = Delivered(payloads, head)
                    /\ calls' = Append(calls, "awaiting")
                    /\ heard' = pushedHeard
           ELSE \* the drain is running: emit('notification') and return
                /\ queue' = pushed
                /\ calls' = Append(calls, "resolved")
                /\ heard' = emitNotification(pushedHeard, payloads, n)
                /\ UNCHANGED <<nsProcessing, loops, deliveries>>

\* a sendNotification(payload) call, lines 491-522, while fewer than
\* MaxNotifications payloads have been sent
sendNotification(type, priority) ==
    /\ Len(notifications) < MaxNotifications
    /\ enqueueNotification(type, priority)

\* the fetch of a webhook delivery settles: sendViaWebhook, lines 615-642
webhookSettles(loop, id, result) ==
    /\ loop \in loops
    /\ id \in loop.pending
    /\ UNCHANGED <<config, qvars>>
    /\ deliveries' = [deliveries EXCEPT ![<<loop.notification, id>>] =
                         IF result = "ok" THEN "ok" ELSE "failed"]
    /\ IF result # "ok" /\ ChannelErrorEscapes
       THEN \* deliverNotification rejects: finally of processQueue, and the
            \* catch of sendNotification rethrows (lines 518-521)
            /\ loops' = loops \ {loop}
            /\ nsProcessing' = FALSE
            /\ calls' = [calls EXCEPT ![loop.caller] = "rejected"]
       ELSE /\ loops' = (loops \ {loop}) \cup {[loop EXCEPT !.pending = loop.pending \ {id}]}
            /\ UNCHANGED <<nsProcessing, calls>>
    /\ UNCHANGED <<channels, notifications, queue, discarded, subscription, heard,
                   written, matchedAtPush, webhooks>>

\* faulty variant of deliverySettled: the drain loop takes the first payload
\* of priority 'high' out of the queue, and the head if there is none
deliverySettledHighFirst(loop) ==
    /\ loop \in loops
    /\ loop.pending = {}
    /\ UNCHANGED <<config, qvars>>
    /\ UNCHANGED <<channels, notifications, discarded, subscription, written,
                   matchedAtPush, webhooks>>
    /\ IF Len(queue) > 0
       THEN LET high == {i \in 1..Len(queue) : notifications[queue[i]].priority = "high"}
                k == IF high = {} THEN 1 ELSE CHOOSE i \in high : \A j \in high : i <= j
                head == queue[k]
            IN  /\ queue' = SubSeq(queue, 1, k - 1) \o SubSeq(queue, k + 1, Len(queue))
                /\ loops' = (loops \ {loop}) \cup
                     {[loop EXCEPT !.notification = head,
                                   !.pending = Pending(notifications, head)]}
                /\ deliveries' = Delivered(notifications, head)
                /\ UNCHANGED <<nsProcessing, calls, heard>>
       ELSE /\ nsProcessing' = FALSE
            /\ loops' = loops \ {loop}
            /\ calls' = [calls EXCEPT ![loop.caller] = "resolved"]
            /\ heard' = emitNotification(heard, notifications, loop.caller)
            /\ UNCHANGED <<queue, deliveries>>

\* Promise.allSettled of line 571 resolves and the while loop of processQueue
\* goes on: the next shift and delivery, or the finally block and the return
\* to sendNotification (lines 516-517)
deliverySettled(loop) ==
    /\ loop \in loops
    /\ loop.pending = {}
    /\ UNCHANGED <<config, qvars>>
    /\ UNCHANGED <<channels, notifications, discarded, subscription, written,
                   matchedAtPush, webhooks>>
    /\ IF Len(queue) > 0
       THEN LET head == Head(queue)
            IN  /\ queue' = Tail(queue)
                /\ loops' = (loops \ {loop}) \cup
                     {[loop EXCEPT !.notification = head,
                                   !.pending = Pending(notifications, head)]}
                /\ deliveries' = Delivered(notifications, head)
                /\ UNCHANGED <<nsProcessing, calls, heard>>
       ELSE /\ nsProcessing' = FALSE
            /\ loops' = loops \ {loop}
            /\ calls' = [calls EXCEPT ![loop.caller] = "resolved"]
            /\ heard' = emitNotification(heard, notifications, loop.caller)
            /\ UNCHANGED <<queue, deliveries>>

\* faulty variant of clearQueue: the array the drain loop reads is left as it is
clearQueueLeavingQueue ==
    /\ discarded' = discarded \cup SeqToSet(queue)
    /\ UNCHANGED <<config, qvars>>
    /\ UNCHANGED <<channels, notifications, queue, nsProcessing, loops, deliveries, calls,
                   subscription, heard, written, matchedAtPush, webhooks>>

\* clearQueue(), lines 703-706
clearQueue ==
    /\ queue' = <<>>
    /\ discarded' = discarded \cup SeqToSet(queue)
    /\ UNCHANGED <<config, qvars>>
    /\ UNCHANGED <<channels, notifications, nsProcessing, loops, deliveries, calls,
                   subscription, heard, written, matchedAtPush, webhooks>>

(***************************************************************************)
(* The webhook route, src/routes/webhook.ts                                *)
(***************************************************************************)
\* the x-walletconnect-signature header of a request: absent, or a string
\* that is or is not the signature of the body
Signatures == {"missing", "invalid", "valid"}

\* webhookData.type
WebhookTypes == {"session_proposal", "session_request", "session_delete",
                 "session_update", "session_ping", "session_event"}

\* the request bodies: the type, and whether webhookData.params.request
\* exists (read by handleSessionRequest only)
WebhookBodies ==
    {b \in [type : WebhookTypes, request : BOOLEAN] :
        b.type # "session_request" => b.request}

\* validateWebhook(webhookData, signature) of utils/validators
validateWebhook(signature) == signature = "valid"

\* line 22: the request passes the signature check
Authenticated(signature) == ~(signature = "missing" \/ ~validateWebhook(signature))

\* the SessionManager method the handler of the type awaits (lines 103, 122,
\* 141) before anything else
SessionCall(type) ==
    CASE type = "session_delete" -> "deleteSession"
      [] type = "session_update" -> "updateSession"
      [] type = "session_ping" -> "updateLastActivity"
      [] OTHER -> "none"

\* the variables of the dispatcher that a step of the route leaves alone
\* unless it calls sendNotification
dispatcherVars == <<channels, notifications, queue, nsProcessing, loops, deliveries,
                    discarded, calls, subscription, heard, written, matchedAtPush>>

\* the webhooks history with the w-th request set to the record given
Recorded(w, request) ==
    [i \in 1..(IF w > Len(webhooks) THEN w ELSE Len(webhooks)) |->
        IF i = w THEN request ELSE webhooks[i]]

\* the handler's call of notificationService.sendNotification({type, topic,
\* data}) (lines 71, 87, 106, 125): no priority is given, so line 500 sets
\* 'normal'; the call is recorded with the request
notify(w, request) ==
    /\ sendNotification(request.type, "normal")
    /\ webhooks' = Recorded(w, [request EXCEPT !.pc = "sendNotification",
                                               !.sent = Append(request.sent,
                                                               Len(notifications) + 1)])
    /\ UNCHANGED matchedAtPush

\* a step of the handler that calls nothing of the dispatcher
handled(w, request) ==
    /\ webhooks' = Recorded(w, request)
    /\ UNCHANGED <<config, qvars>>
    /\ UNCHANGED dispatcherVars

\* router.post('/'), lines 16-60, up to the first suspension of the handler
post(signature, body) ==
    LET w == Len(webhooks) + 1
        request == [signature |-> signature, type |-> body.type, request |-> body.request,
                    pc |-> "done", status |-> 0, sent |-> <<>>, session |-> {}]
    IN  /\ Len(webhooks) < MaxWebhooks
        /\ IF ~Authenticated(signature)
           THEN \* line 24
                handled(w, [request EXCEPT !.status = 401])
           ELSE IF body.type \in {"session_proposal", "session_request"}
           THEN IF body.type = "session_request" /\ ~body.request
                THEN \* params.request.method of line 84 throws a TypeError,
                     \* caught at line 56
                     handled(w, [request EXCEPT !.status = 500])
                ELSE notify(w, request)
           ELSE IF SessionCall(body.type) # "none"
           THEN handled(w, [request EXCEPT !.pc = "session",
                                           !.session = {SessionCall(body.type)}])
           ELSE \* default branch of the switch, line 52
                handled(w, [request EXCEPT !.status = 200])

\* the awaited SessionManager call resolves: the rest of handleSessionDelete
\* (line 106), handleSessionUpdate (line 125) or handleSessionPing
sessionSettles(w) ==
    /\ w \in 1..Len(webhooks)
    /\ webhooks[w].pc = "session"
    /\ IF webhooks[w].type = "session_ping"
       THEN handled(w, [webhooks[w] EXCEPT !.pc = "done", !.status = 200])
       ELSE notify(w, webhooks[w])

\* the awaited SessionManager call rejects: catch block of the route, lines 56-58
sessionFails(w) ==
    /\ w \in 1..Len(webhooks)
    /\ webhooks[w].pc = "session"
    /\ handled(w, [webhooks[w] EXCEPT !.pc = "done", !.status = 500])

\* the awaited sendNotification call completes: line 55, or lines 56-58
respond(w) ==
    /\ w \in 1..Len(webhooks)
    /\ webhooks[w].pc = "sendNotification"
    /\ LET call == calls[webhooks[w].sent[Len(webhooks[w].sent)]]
       IN  /\ call # "awaiting"
           /\ handled(w, [webhooks[w] EXCEPT
                             !.pc = "done",
                             !.status = IF call = "resolved" THEN 200 ELSE 500])

(***************************************************************************)
(* Specifications                                                          *)
(***************************************************************************)
\* the scheduler as the repository runs it: no listener of a lifecycle event
Init == (\E cfg \in Configs : QueueInit(cfg)) /\ NotificationInit(FALSE)

Next ==
    \/ \E type \in JobTypes : registerProcessor(type)
    \/ \E type \in JobTypes, priority \in Priorities : addJob(type, priority)
    \/ stopProcessing
    \/ processJobs
    \/ \E id \in invoked : processorResolves(id)
    \/ \E id \in invoked : processorRejects(id)
    \/ \E t \in timers : retryTimer(t)
    \/ clearQueues

Spec == Init /\ [][Next]_vars

\* the scheduler with listeners that throw
ListenerNext ==
    \/ Next
    \/ \E event \in LifecycleEvents : on(event)

ListenerSpec == Init /\ [][ListenerNext]_vars

\* the scheduler of the retry scenario: one concurrency slot, three attempts
\* per job (the default of line 81), a retry delay of 100 ms
RetryInit ==
    /\ QueueInit([maxConcurrent |-> 1, retryAttempts |-> 3, retryDelay |-> 100])
    /\ NotificationInit(FALSE)

RetrySpec == RetryInit /\ [][Next]_vars

\* the scheduler with calls of startProcessing after construction
ControlNext ==
    \/ Next
    \/ startProcessing

ControlInit ==
    /\ QueueInit([maxConcurrent |-> 1, retryAttempts |-> 2, retryDelay |-> 1000])
    /\ NotificationInit(FALSE)

ControlSpec == ControlInit /\ [][ControlNext]_vars

\* the notification dispatcher
NotifyInit ==
    /\ QueueInit([maxConcurrent |-> 5, retryAttempts |-> 3, retryDelay |-> 1000])
    /\ \E webhookUrl \in BOOLEAN : NotificationInit(webhookUrl)

NotifyNext ==
    \/ \E channel \in ChannelConfigs : addChannel(channel)
    \/ \E channelId \in ChannelIds : removeChannel(channelId)
    \/ \E payload \in Payloads :
         sendNotification(payload.type, payload.priority) /\ UNCHANGED <<matchedAtPush, webhooks>>
    \/ \E loop \in loops, id \in ChannelIds, result \in FetchResults :
         webhookSettles(loop, id, result)
    \/ \E loop \in loops : deliverySettled(loop)
    \/ clearQueue

NotifySpec == NotifyInit /\ [][NotifyNext]_vars

\* the notification dispatcher constructed with WEBHOOK_URL set, sent
\* payloads of the type every channel configuration accepts, with webhook
\* endpoints that answer 2xx, and with the record of the channels that
\* matched each payload at the time of its sendNotification call
RegistryInit ==
    /\ QueueInit([maxConcurrent |-> 5, retryAttempts |-> 3, retryDelay |-> 1000])
    /\ NotificationInit(TRUE)

RegistryNext ==
    \/ \E channel \in ChannelConfigs : addChannel(channel)
    \/ \E channelId \in ChannelIds : removeChannel(channelId)
    \/ \E payload \in {p \in Payloads : p.type = "session_delete"} :
         /\ sendNotification(payload.type, payload.priority)
         /\ matchedAtPush' = Append(matchedAtPush, Recipients(payload.type))
         /\ UNCHANGED webhooks
    \/ \E loop \in loops, id \in ChannelIds, result \in {r \in FetchResults : r = "ok"} :
         webhookSettles(loop, id, result)
    \/ \E loop \in loops : deliverySettled(loop)

RegistrySpec == RegistryInit /\ [][RegistryNext]_vars

\* the notification dispatcher with a subscriber, under the channels of
\* initializeDefaultChannels
SubscribeNext ==
    \/ \E payload \in Payloads :
         sendNotification(payload.type, payload.priority) /\ UNCHANGED <<matchedAtPush, webhooks>>
    \/ \E loop \in loops, id \in ChannelIds, result \in FetchResults :
         webhookSettles(loop, id, result)
    \/ \E loop \in loops : deliverySettled(loop)
    \/ clearQueue
    \/ \E types \in SubscribedTypes : subscribe(types)
    \/ unsubscribe

SubscribeSpec == NotifyInit /\ [][SubscribeNext]_vars

\* the notification dispatcher under the channels of initializeDefaultChannels,
\* with up to MaxBurst sendNotification calls, so that payloads of different
\* priority wait in the queue together
FifoNext ==
    \/ \E payload \in Payloads :
         /\ Len(notifications) < MaxBurst
         /\ enqueueNotification(payload.type, payload.priority)
         /\ UNCHANGED <<matchedAtPush, webhooks>>
    \/ \E loop \in loops, id \in ChannelIds, result \in FetchResults :
         webhookSettles(loop, id, result)
    \/ \E loop \in loops : deliverySettled(loop)
    \/ clearQueue

FifoSpec == NotifyInit /\ [][FifoNext]_vars

\* the scheduler of the backoff scenario: jobs of one type, four attempts per
\* job, so that a job backs off three times
BackoffInit ==
    /\ QueueInit([maxConcurrent |-> 2, retryAttempts |-> 4, retryDelay |-> 100])
    /\ NotificationInit(FALSE)

BackoffNext ==
    \/ \E type \in {"a"} : registerProcessor(type)
    \/ \E type \in {"a"}, priority \in Priorities : addJob(type, priority)
    \/ stopProcessing
    \/ processJobs
    \/ \E id \in invoked : processorResolves(id)
    \/ \E id \in invoked : processorRejects(id)
    \/ \E t \in timers : retryTimer(t)
    \/ clearQueues

BackoffSpec == BackoffInit /\ [][BackoffNext]_vars

\* the scheduler while the tick timer runs (no stopProcessing, no
\* clearQueues), with ticks and retry timers that keep firing and processors
\* whose every invocation settles
ProgressNext ==
    \/ \E type \in JobTypes : registerProcessor(type)
    \/ \E type \in JobTypes, priority \in Priorities : addJob(type, priority)
    \/ processJobs
    \/ \E id \in invoked : processorResolves(id)
    \/ \E id \in invoked : processorRejects(id)
    \/ \E t \in timers : retryTimer(t)

ProgressFairness ==
    /\ WF_vars(processJobs)
    /\ WF_vars(\E t \in timers : retryTimer(t))
    /\ \A id \in 1..MaxJobs : WF_vars(processorResolves(id) \/ processorRejects(id))

ProgressSpec == Init /\ [][ProgressNext]_vars /\ ProgressFairness

\* the webhook route in front of the notification dispatcher
WebhookNext ==
    \/ \E signature \in Signatures, body \in WebhookBodies : post(signature, body)
    \/ \E w \in 1..MaxWebhooks : sessionSettles(w)
    \/ \E w \in 1..MaxWebhooks : sessionFails(w)
    \/ \E w \in 1..MaxWebhooks : respond(w)
    \/ \E loop \in loops, id \in ChannelIds, result \in FetchResults :
         webhookSettles(loop, id, result)
    \/ \E loop \in loops : deliverySettled(loop)

WebhookSpec == NotifyInit /\ [][WebhookNext]_vars

(***************************************************************************)
(* Properties of the scheduler                                             *)
(***************************************************************************)
JobIds == 1..Len(jobs)

ProcessingJobs == {id \in JobIds : jobs[id].status = PROCESSING}

TimerIds == {t.id : t \in timers}

\* C1: the number of jobs whose status is PROCESSING never exceeds the
\* concurrency limit, and at most one job of each type is PROCESSING.
C1_ConcurrencyLimit ==
    /\ Cardinality(ProcessingJobs) <= config.maxConcurrent
    /\ \A type \in JobTypes :
         Cardinality({id \in ProcessingJobs : jobs[id].type = type}) <= 1

\* C1 case: as many jobs PROCESSING as the limit allows while a further job
\* waits in a queue under a running tick loop
C1_Witness ==
    /\ config.maxConcurrent = 2
    /\ Cardinality(ProcessingJobs) = config.maxConcurrent
    /\ Queued # {}
    /\ intervalId

C3_CompletedLeavesActiveSet ==
    /\ \A id \in JobIds : jobs[id].status = COMPLETED => id \notin activeJobs
    /\ \A id \in activeJobs :
         \/ jobs[id].status = PROCESSING
         \/ jobs[id].status = RETRYING /\ id \in TimerIds

\* C4: attempts never exceeds maxAttempts, a FAILED job has attempts =
\* maxAttempts, the processor only runs with attempts <= maxAttempts, and a
\* failed processor invocation makes the job FAILED exactly when it was the
\* maxAttempts-th one (RETRYING otherwise); nothing else makes a job FAILED.
C4_AttemptsBound ==
    /\ [](\A id \in JobIds :
            /\ jobs[id].attempts <= jobs[id].maxAttempts
            /\ jobs[id].status = FAILED => jobs[id].attempts = jobs[id].maxAttempts)
    /\ [][\A id \in JobIds :
            /\ lastFail'[id] # lastFail[id] =>
                 /\ id \in invoked
                 /\ jobs'[id].attempts = jobs[id].attempts
                 /\ jobs'[id].status =
                      IF jobs[id].attempts = jobs[id].maxAttempts THEN FAILED ELSE RETRYING
            /\ jobs'[id].status = FAILED /\ jobs[id].status # FAILED =>
                 lastFail'[id] # lastFail[id]]_vars

\* C4 case: a job with maxAttempts = 2 is FAILED after its second failure
C4_Witness ==
    \E id \in JobIds :
        /\ jobs[id].status = FAILED
        /\ jobs[id].maxAttempts = 2
        /\ jobs[id].attempts = 2
        /\ lastFail[id] = ErrorMessage(2)

\* C5 as stated: getJobStatus of a FAILED job returns the job, FAILED, with
\* the message of its last processor failure.
C5_FailedJobQueryable ==
    \A id \in JobIds :
        jobs[id].status = FAILED =>
            /\ getJobStatus(id) # Undefined
            /\ getJobStatus(id).status = FAILED
            /\ getJobStatus(id).error = lastFail[id]

\* C10 as stated: no job that is PROCESSING or RETRYING is removed by
\* clearQueues (a removed job is never dispatched again, so it keeps the
\* status it had when it was removed).
C10_NoRetryingJobRemoved ==
    \A id \in cleared : jobs[id].status \notin {PROCESSING, RETRYING}

\* C10 amended: a clearQueues call that removes jobs empties every queue and
\* leaves the queue keys, the active set, the in-flight marks, the job
\* objects, the pending processor invocations and the retry timers unchanged;
\* the jobs it removes are never jobs of the active set (PROCESSING, or
\* RETRYING with the retry timer pending).
C10_ClearQueuesFrame ==
    /\ [](\A id \in cleared :
            id \notin activeJobs /\ id \notin TimerIds /\ id \notin invoked)
    /\ [][cleared' # cleared =>
            /\ Len(queues') = Len(queues)
            /\ \A i \in 1..Len(queues) :
                 queues'[i].type = queues[i].type /\ queues'[i].items = <<>>
            /\ activeJobs' = activeJobs
            /\ processing' = processing
            /\ jobs' = jobs
            /\ invoked' = invoked
            /\ timers' = timers]_vars

\* C10 case: queued jobs were cleared while one job is PROCESSING and another
\* awaits its retry timer
C10_Witness ==
    /\ cleared # {}
    /\ Queued = {}
    /\ \E id \in activeJobs : jobs[id].status = PROCESSING /\ id \in invoked
    /\ \E t \in timers : jobs[t.id].status = RETRYING /\ t.id \in activeJobs

\* the events of a job with maxAttempts = m whose processor fails every time,
\* each with the status, attempts and error the job has when it is emitted
C11_Expected(m) ==
    [i \in 1..(2 * m + 1) |->
        IF i = 1
        THEN [event |-> "job:added", status |-> PENDING, attempts |-> 0, error |-> NoError]
        ELSE LET k == i \div 2
             IN  IF i % 2 = 0
                 THEN [event |-> "job:processing", status |-> PROCESSING, attempts |-> k,
                       error |-> IF k = 1 THEN NoError ELSE ErrorMessage(k - 1)]
                 ELSE IF k < m
                      THEN [event |-> "job:retrying", status |-> RETRYING, attempts |-> k,
                            error |-> ErrorMessage(k)]
                      ELSE [event |-> "job:failed", status |-> FAILED, attempts |-> k,
                            error |-> ErrorMessage(k)]]

\* C11: every change of a job's status is emitted (the status is the one of
\* the last event); as long as the processor of a job has failed every time,
\* its events are a prefix of added, (processing, retrying) maxAttempts - 1
\* times, processing, failed; and a FAILED job with maxAttempts = 3 has gone
\* through exactly PENDING, PROCESSING, RETRYING, PROCESSING, RETRYING,
\* PROCESSING, FAILED with the matching events, has attempts = 3 and holds
\* the message of its last failure.
C11_RetrySequence ==
    \A id \in JobIds :
        LET log == emitted[id]
            m == jobs[id].maxAttempts
        IN  /\ Len(log) >= 1
            /\ jobs[id].status = log[Len(log)].status
            /\ jobs[id].status # COMPLETED =>
                  /\ Len(log) <= 2 * m + 1
                  /\ log = SubSeq(C11_Expected(m), 1, Len(log))
            /\ jobs[id].status = FAILED /\ m = 3 =>
                  /\ [i \in 1..Len(log) |-> log[i].status] =
                       <<PENDING, PROCESSING, RETRYING, PROCESSING, RETRYING,
                         PROCESSING, FAILED>>
                  /\ [i \in 1..Len(log) |-> log[i].event] =
                       <<"job:added", "job:processing", "job:retrying", "job:processing",
                         "job:retrying", "job:processing", "job:failed">>
                  /\ jobs[id].attempts = 3
                  /\ jobs[id].error = ErrorMessage(3)
                  /\ jobs[id].error = lastFail[id]

\* C11 case: a job with maxAttempts = 3 is FAILED after three failures
C11_Witness ==
    \E id \in JobIds :
        /\ jobs[id].status = FAILED
        /\ jobs[id].maxAttempts = 3
        /\ lastFail[id] = ErrorMessage(3)
        /\ Len(emitted[id]) = 7

\* C12: a job a tick removed for want of a processor is PENDING with
\* attempts = 0 for ever, is in no queue, not in the active set, has no
\* processor invocation and no retry timer, and the only event emitted for it
\* is job:added; the tick that removes it takes it from the head of its queue
\* while its type is unmarked and has no processor, and changes neither the
\* in-flight marks, the active set, the job objects, the events, the pending
\* invocations nor the retry timers.
C12_SilentDrop ==
    /\ [](\A id \in dropped :
            /\ jobs[id].status = PENDING
            /\ jobs[id].attempts = 0
            /\ id \notin Queued
            /\ id \notin activeJobs
            /\ id \notin invoked
            /\ id \notin TimerIds
            /\ [i \in 1..Len(emitted[id]) |-> emitted[id][i].event] = <<"job:added">>)
    /\ [][\A id \in dropped' \ dropped :
            /\ \E i \in 1..Len(queues) :
                 /\ queues[i].type = jobs[id].type
                 /\ Len(queues[i].items) > 0
                 /\ queues[i].items[1] = id
                 /\ queues'[i].items = Tail(queues[i].items)
            /\ jobs[id].type \notin processors
            /\ jobs[id].type \notin processing
            /\ processing' = processing
            /\ activeJobs' = activeJobs
            /\ jobs' = jobs
            /\ emitted' = emitted
            /\ invoked' = invoked
            /\ timers' = timers]_vars

\* C12 case: a job was dropped, and afterwards a processor was registered
\* for its type and ran another job of that type
C12_Witness ==
    \E id \in dropped : \E other \in JobIds :
        /\ other # id
        /\ jobs[other].type = jobs[id].type
        /\ jobs[other].status = COMPLETED
        /\ jobs[id].type \in processors

\* the queues a tick may take a job from: non-empty, type not in-flight
C13_Eligible == {i \in 1..Len(queues) :
                    Len(queues[i].items) > 0 /\ queues[i].type \notin processing}

\* the jobs a step takes out of a queue for dispatch or for want of a processor
C13_Selected ==
    {id \in JobIds :
        \/ jobs'[id].attempts # jobs[id].attempts
        \/ id \in dropped' \ dropped}

\* C13: the job a tick selects is the head of the queue of an eligible type;
\* its priority is >= the priority of every eligible head, > the priority of
\* the head of every eligible type that comes earlier in the iteration order
\* of the queues, and >= the priority of every pending job of every eligible
\* type; a tick selects at most one job.
C13_SelectsGreatestEligibleHead ==
    [][/\ Cardinality(C13_Selected) <= 1
       /\ \A id \in C13_Selected :
            \E i \in C13_Eligible :
                /\ queues[i].items[1] = id
                /\ \A j \in C13_Eligible :
                     /\ jobs[id].priority >= jobs[queues[j].items[1]].priority
                     /\ j < i => jobs[id].priority > jobs[queues[j].items[1]].priority
                     /\ \A k \in 1..Len(queues[j].items) :
                          jobs[id].priority >= jobs[queues[j].items[k]].priority]_vars

\* C13 case: the head of the first type's queue was dispatched although the
\* head of the second type's queue has the same priority and was added
\* earlier, and no job of the second type has ever been dispatched
C13_Witness ==
    /\ Len(queues) = 2
    /\ Len(queues[2].items) > 0
    /\ \A other \in JobIds : jobs[other].type = queues[2].type => jobs[other].attempts = 0
    /\ \E id \in ProcessingJobs :
         /\ jobs[id].type = queues[1].type
         /\ jobs[id].priority = jobs[queues[2].items[1]].priority
         /\ queues[2].items[1] < id
         /\ id \in invoked

\* C14: in every state the queue of every type holds its jobs in descending
\* order of priority, and a step that takes a job out of a queue for dispatch
\* takes one whose priority is >= the priority of every job of that queue.
C14_QueuesSorted ==
    /\ [](\A i \in 1..Len(queues) :
            \A k \in 1..Len(queues[i].items), l \in 1..Len(queues[i].items) :
                k < l => jobs[queues[i].items[k]].priority >= jobs[queues[i].items[l]].priority)
    /\ [][\A id \in JobIds :
            jobs'[id].attempts # jobs[id].attempts =>
                \A other \in Queued :
                    jobs[other].type = jobs[id].type =>
                        jobs[id].priority >= jobs[other].priority]_vars

\* C14 case: a HIGH job was dispatched ahead of a LOW job of the same type
\* that was added before it and still waits in the queue
C14_Witness ==
    \E id \in ProcessingJobs : \E other \in Queued :
        /\ other < id
        /\ jobs[other].type = jobs[id].type
        /\ jobs[other].priority < jobs[id].priority
        /\ jobs[other].attempts = 0
        /\ jobs[id].attempts = 1

\* the jobs that are neither COMPLETED nor FAILED and were neither dropped
\* for want of a processor nor removed by clearQueues
C15_Live ==
    {id \in JobIds :
        jobs[id].status \notin {COMPLETED, FAILED} /\ id \notin dropped /\ id \notin cleared}

\* C15 as stated: every live job is held by exactly one of its type's queue,
\* the active set and a pending retry timer.
C15_ExactlyOneOwner ==
    \A id \in C15_Live :
        Cardinality({owner \in {"queue", "active", "timer"} :
                        \/ owner = "queue" /\ id \in Queued
                        \/ owner = "active" /\ id \in activeJobs
                        \/ owner = "timer" /\ id \in TimerIds}) = 1

\* C15 amended: every live job is held by exactly one of its type's queue and
\* the active set; a pending retry timer holds only a job of the active set
\* that is in no queue (during backoff the job is held by the active set and
\* by its timer), and a job has at most one pending timer; a job appears in
\* the queue of its own type only and at most once.
C15_QueueOrActive ==
    /\ \A id \in C15_Live : (id \in Queued) # (id \in activeJobs)
    /\ \A id \in JobIds : ~(id \in Queued /\ id \in activeJobs)
    /\ \A t \in timers :
         /\ t.id \in C15_Live
         /\ t.id \in activeJobs
         /\ t.id \notin Queued
         /\ \A u \in timers : u.id = t.id => u = t
    /\ \A i \in 1..Len(queues) :
         \A k \in 1..Len(queues[i].items) :
             /\ jobs[queues[i].items[k]].type = queues[i].type
             /\ \A l \in 1..Len(queues[i].items) :
                  queues[i].items[k] = queues[i].items[l] => k = l
    /\ \A i \in 1..Len(queues), j \in 1..Len(queues) :
         queues[i].type = queues[j].type => i = j

\* C15 case: one job has been re-queued by its retry timer, a second one
\* awaits its retry timer in the active set, a third one is PROCESSING
C15_Witness ==
    /\ \E id \in Queued : jobs[id].status = RETRYING /\ id \notin activeJobs
    /\ \E t \in timers : t.id \in activeJobs
    /\ \E id \in ProcessingJobs : id \in activeJobs /\ id \in invoked

\* C16 as stated: once a job has been COMPLETED or FAILED (the listeners of
\* job:completed or job:failed have seen it with that status), it keeps that
\* status, its attempts and its error, and it is in no queue, has no
\* processor invocation and no retry timer.
C16_TerminalForEver ==
    \A id \in JobIds :
        \A i \in 1..Len(emitted[id]) :
            emitted[id][i].status \in {COMPLETED, FAILED} =>
                /\ i = Len(emitted[id])
                /\ jobs[id].status = emitted[id][i].status
                /\ jobs[id].attempts = emitted[id][i].attempts
                /\ jobs[id].error = emitted[id][i].error
                /\ id \notin Queued
                /\ id \notin invoked
                /\ id \notin TimerIds

\* C18: at most one tick timer exists, and it exists exactly while intervalId
\* is set; a startProcessing call that finds the loop started changes nothing
\* but the record of the call; while the loop is stopped no tick timer
\* exists, and no step that starts from a stopped loop dispatches or drops a
\* queued job or changes the number of tick timers other than by starting the
\* loop.
C18_StartStopIdempotent ==
    /\ [](tickTimers \in {0, 1})
    /\ [](intervalId <=> tickTimers = 1)
    /\ [][lastStart' = "already started" /\ lastStart # "already started" =>
            /\ intervalId /\ intervalId'
            /\ tickTimers' = tickTimers
            /\ <<jobs, queues, processors, processing, activeJobs, invoked, timers,
                 dropped, cleared, emitted>>' =
               <<jobs, queues, processors, processing, activeJobs, invoked, timers,
                 dropped, cleared, emitted>>]_vars
    /\ [][~intervalId =>
            /\ \A id \in JobIds :
                 /\ jobs'[id].attempts = jobs[id].attempts
                 /\ jobs[id].status # PROCESSING => jobs'[id].status # PROCESSING
            /\ dropped' = dropped
            /\ activeJobs' \subseteq activeJobs
            /\ processing' \subseteq processing
            /\ ~intervalId' => tickTimers' = tickTimers]_vars

\* C18 case: startProcessing was called on a started loop, the loop was then
\* stopped, and a queued job whose type has a processor and is not in-flight
\* waits although a concurrency slot is free
C18_Witness ==
    /\ lastStart = "already started"
    /\ ~intervalId
    /\ tickTimers = 0
    /\ Cardinality(activeJobs) < config.maxConcurrent
    /\ \E i \in 1..Len(queues) :
         /\ Len(queues[i].items) > 0
         /\ queues[i].type \in processors
         /\ queues[i].type \notin processing

\* C21: a tick dispatches at most one job (at most one job per step is handed
\* to a processor, dropped for a missing processor, or has its attempt
\* counted), and while the active set is as large as the concurrency limit no
\* step selects a job: no processor is invoked, no job is dropped, no job
\* becomes PROCESSING or has an attempt counted, no 'job:processing' event is
\* emitted, nothing enters the active set or the in-flight types, and a job
\* leaves a queue only by clearQueues.
C21_TickAtLimitDoesNothing ==
    [][/\ Cardinality((invoked' \ invoked) \cup (dropped' \ dropped)
                      \cup {id \in JobIds : jobs'[id].attempts # jobs[id].attempts}) <= 1
       /\ Cardinality(activeJobs) >= config.maxConcurrent =>
            /\ invoked' \subseteq invoked
            /\ dropped' = dropped
            /\ activeJobs' \subseteq activeJobs
            /\ processing' \subseteq processing
            /\ \A id \in JobIds :
                 /\ jobs'[id].attempts = jobs[id].attempts
                 /\ jobs'[id].status = PROCESSING => jobs[id].status = PROCESSING
                 /\ emitted'[id] = emitted[id]
                    \/ emitted'[id][Len(emitted'[id])].event # "job:processing"
            /\ \A id \in Queued : id \in Queued' \/ id \in cleared']_vars

\* C21 case: the tick timer runs and the active set is as large as the limit
\* while a job of a type that is not in flight heads a queue, once with a
\* processor registered for it and once without
C21_Witness ==
    /\ intervalId
    /\ Cardinality(activeJobs) >= config.maxConcurrent
    /\ \E i \in 1..Len(queues) :
         /\ Len(queues[i].items) > 0
         /\ queues[i].type \notin processing
         /\ queues[i].type \in processors
    /\ \E i \in 1..Len(queues) :
         /\ Len(queues[i].items) > 0
         /\ queues[i].type \notin processing
         /\ queues[i].type \notin processors

\* C23: when the n-th invocation of a job's processor fails with
\* n < maxAttempts, the job becomes RETRYING and one timer of delay
\* retryDelay * n is set for it; while the timer is pending the job is
\* RETRYING, in the active set and in no queue; when the timer fires the job
\* is in the queue of its type, which is sorted by priority, and has left
\* the active set.
C23_LinearBackoff ==
    /\ [](\A t \in timers :
            /\ t.delay = config.retryDelay * jobs[t.id].attempts
            /\ jobs[t.id].status = RETRYING
            /\ jobs[t.id].attempts < jobs[t.id].maxAttempts
            /\ t.id \in activeJobs
            /\ t.id \notin Queued
            /\ \A other \in timers : other.id = t.id => other = t)
    /\ [][/\ \A id \in invoked :
               (lastFail'[id] # lastFail[id] /\ jobs[id].attempts < jobs[id].maxAttempts) =>
                   /\ jobs'[id].status = RETRYING
                   /\ jobs'[id].attempts = jobs[id].attempts
                   /\ id \notin TimerIds
                   /\ [id |-> id, delay |-> config.retryDelay * jobs[id].attempts] \in timers'
          /\ \A t \in timers \ timers' :
               /\ t.id \notin activeJobs'
               /\ jobs'[t.id] = jobs[t.id]
               /\ \E i \in 1..Len(queues') :
                    /\ queues'[i].type = jobs[t.id].type
                    /\ t.id \in SeqToSet(queues'[i].items)
                    /\ \A k \in 1..(Len(queues'[i].items) - 1) :
                         jobs[queues'[i].items[k]].priority >=
                             jobs[queues'[i].items[k + 1]].priority]_vars

\* C23 case: a job whose first, second and third invocation failed waits for
\* its third timer, of delay 3 * retryDelay, after the timers of delay
\* retryDelay and 2 * retryDelay fired and the job was dispatched again
C23_Witness ==
    \E t \in timers :
        /\ jobs[t.id].attempts = 3
        /\ t.delay = 3 * config.retryDelay
        /\ Len(emitted[t.id]) >= 6
        /\ lastFail[t.id] = ErrorMessage(3)

\* C24: as long as a processor invocation has not settled, its job is
\* PROCESSING and in the active set and its type is marked in flight, no
\* other job of that type is PROCESSING or handed to a processor, and the
\* next tick does not select a job of that type; and whenever the tick timer
\* runs, the active set is smaller than the limit and a job heads the queue
\* of a type that is not in flight, the tick takes such a job out of its
\* queue (to dispatch it, or to drop it for want of a processor).
C24_HungInvocationHoldsTypeAndSlot ==
    /\ \A id \in invoked :
         /\ jobs[id].status = PROCESSING
         /\ id \in activeJobs
         /\ jobs[id].type \in processing
         /\ id \notin Queued
         /\ \A other \in JobIds \ {id} :
              jobs[other].type = jobs[id].type =>
                 /\ other \notin invoked
                 /\ jobs[other].status # PROCESSING
                 /\ getNextJob # other
    /\ (/\ intervalId
        /\ Cardinality(activeJobs) < config.maxConcurrent
        /\ \E i \in 1..Len(queues) :
             Len(queues[i].items) > 0 /\ queues[i].type \notin processing)
       => ENABLED (/\ processJobs
                   /\ \E id \in Queued :
                        /\ jobs[id].type \notin processing
                        /\ id \notin Queued'
                        /\ id \in invoked' \/ id \in dropped')

\* C24 case: two invocations of processors of different types are unsettled,
\* the second one dispatched while the first was already waiting, and a job
\* of the type of one of them waits in the queue of a type that has a
\* processor
C24_Witness ==
    \E id \in invoked, other \in invoked, waiting \in Queued :
        /\ jobs[id].type # jobs[other].type
        /\ jobs[waiting].type = jobs[id].type
        /\ jobs[waiting].type \in processors
        /\ intervalId

\* C27: a job type is in the processing set if and only if some job of that
\* type has status PROCESSING; so the type of a job whose processor has
\* settled, as COMPLETED, RETRYING or FAILED, is marked only if another job
\* of the type is PROCESSING.
C27_MarkIffProcessing ==
    \A type \in JobTypes :
        type \in processing <=>
            \E id \in JobIds : jobs[id].type = type /\ jobs[id].status = PROCESSING

\* C27 case: of three jobs of one type one has completed, one has failed for
\* good and one waits for its retry timer, and the type is not marked
C27_Witness ==
    \E done \in JobIds, failed \in JobIds, t \in timers :
        /\ jobs[done].status = COMPLETED
        /\ jobs[failed].status = FAILED
        /\ jobs[t.id].status = RETRYING
        /\ jobs[done].type = jobs[failed].type
        /\ jobs[done].type = jobs[t.id].type
        /\ jobs[done].type \notin processing

\* C28 as stated: while the tick timer runs, with ticks and timers that keep
\* firing and processor invocations that all settle, every job added with
\* addJob eventually is COMPLETED, FAILED or dropped for want of a processor.
C28_EveryJobTerminates ==
    \A id \in 1..MaxJobs :
        [](id \in JobIds =>
              <>(/\ id \in JobIds
                 /\ jobs[id].status \in {COMPLETED, FAILED} \/ id \in dropped))

(***************************************************************************)
(* Properties of the notification dispatcher                               *)
(***************************************************************************)
NotificationIds == 1..Len(notifications)

\* the payload has been shifted off the queue by a drain loop
Popped(n) == n \in NotificationIds /\ n \notin SeqToSet(queue) /\ n \notin discarded

\* the channels the payload has been handed to
HandedTo(n) == {d[2] : d \in {e \in DOMAIN deliveries : e[1] = n}}

PendingDeliveries == {d \in DOMAIN deliveries : deliveries[d] = "pending"}

\* C6 as stated: a sendNotification call has completed only when its payload
\* has been shifted off the queue and every delivery of it has settled.
C6_ResolvedAfterDelivery ==
    \A n \in NotificationIds :
        calls[n] = "resolved" =>
            /\ Popped(n)
            /\ \A d \in PendingDeliveries : d[1] # n

\* C7: in the step that shifts a payload off the queue for delivery, the
\* payload is handed to exactly the channels that are enabled and have no
\* filters or list its type; no other step hands a payload to a channel.
C7_RecipientsMatch ==
    [][/\ \A n \in 1..Len(notifications') :
            Popped(n)' /\ ~Popped(n) =>
                HandedTo(n)' =
                    {id \in DOMAIN channels :
                        /\ channels[id].enabled
                        /\ \/ channels[id].filters = NoFilters
                           \/ notifications'[n].type \in channels[id].filters}
       /\ \A d \in DOMAIN deliveries' \ DOMAIN deliveries :
            Popped(d[1])' /\ ~Popped(d[1])]_vars

\* C7 case: a session_request payload is being delivered to the unfiltered
\* channels while the audit channel, which lists session_delete only, and a
\* disabled webhook channel have not received it
C7_Witness ==
    \E loop \in loops :
        /\ notifications[loop.notification].type = "session_request"
        /\ "audit" \in DOMAIN channels
        /\ channels["audit"].enabled
        /\ "webhook" \in DOMAIN channels
        /\ ~channels["webhook"].enabled
        /\ HandedTo(loop.notification) = {"websocket"}

\* C8: no sendNotification call is ever rejected; a failed channel delivery
\* leaves the drain loop running with the other deliveries of the payload
\* still awaited and the queue untouched; and a drain loop is running
\* whenever the queue holds a payload.
C8_FailureIsolated ==
    /\ [](\A n \in NotificationIds : calls[n] # "rejected")
    /\ [](Len(queue) > 0 => loops # {} /\ nsProcessing)
    /\ [][\A d \in DOMAIN deliveries :
            deliveries[d] = "pending" /\ deliveries'[d] = "failed" =>
                /\ nsProcessing'
                /\ queue' = queue
                /\ \E loop \in loops' :
                     /\ loop.notification = d[1]
                     /\ loop.pending = {e[2] : e \in {f \in PendingDeliveries : f[1] = d[1]}} \ {d[2]}
                /\ \A e \in DOMAIN deliveries : e # d => deliveries'[e] = deliveries[e]]_vars

\* C8 case: one channel failed for a payload, another channel settled for the
\* same payload, the next payload was delivered, and both calls completed
C8_Witness ==
    \E n \in NotificationIds, m \in NotificationIds :
        /\ n < m
        /\ <<n, "webhook">> \in DOMAIN deliveries
        /\ deliveries[<<n, "webhook">>] = "failed"
        /\ \E id \in HandedTo(n) \ {"webhook"} : deliveries[<<n, id>>] = "ok"
        /\ HandedTo(m) # {}
        /\ calls[n] = "resolved"
        /\ calls[m] = "resolved"
        /\ loops = {}

\* C9: at most one drain loop exists, the flag is up exactly while it does,
\* all pending deliveries belong to the one payload being delivered, and a
\* payload is shifted off the queue only when no delivery is pending.
C9_SingleFlightSequential ==
    /\ [](Cardinality(loops) <= 1)
    /\ [](nsProcessing <=> loops # {})
    /\ [](\A d \in PendingDeliveries : \E loop \in loops : loop.notification = d[1])
    /\ [][\A n \in 1..Len(notifications') :
            Popped(n)' /\ ~Popped(n) => PendingDeliveries = {}]_vars

\* C9 case: a payload sent while an earlier one is still being delivered
\* waits in the queue
C9_Witness ==
    \E loop \in loops :
        /\ loop.pending # {}
        /\ Len(queue) > 0
        /\ \A i \in 1..Len(queue) : queue[i] > loop.notification

\* C17 as stated: once a sendNotification call has completed, the callback
\* has been invoked exactly once with its payload if the payload was pushed
\* while the subscription was registered and its type is in types, and not at
\* all if its type is not in types or if it was pushed after unsubscribe.
C17_CallbackExactlyOnce ==
    \A n \in NotificationIds :
        calls[n] = "resolved" =>
            /\ heard[n].pushed = "registered" /\ notifications[n].type \in subscription.types
                  => heard[n].count = 1
            /\ notifications[n].type \notin subscription.types => heard[n].count = 0
            /\ heard[n].pushed = "removed" => heard[n].count = 0

\* C17 amended: 'notification' is emitted once per payload, when its
\* sendNotification call completes, whether its deliveries succeeded, failed
\* or were discarded; the callback is invoked exactly once with a payload
\* whose type is in types if the subscription is registered at that moment,
\* and never otherwise: not before the call completes, not for another type,
\* not for a payload pushed after unsubscribe, and not for a payload pushed
\* before unsubscribe whose call completes after it.
C17_CallbackAtCompletion ==
    \A n \in NotificationIds :
        /\ (calls[n] = "resolved") = (heard[n].emitted # "not yet")
        /\ heard[n].count =
              IF /\ calls[n] = "resolved"
                 /\ heard[n].emitted = "registered"
                 /\ notifications[n].type \in subscription.types
              THEN 1 ELSE 0
        /\ heard[n].pushed = "removed" => heard[n].count = 0
        /\ notifications[n].type \notin subscription.types => heard[n].count = 0

\* C17 case: the callback was invoked once with a payload whose webhook
\* delivery failed, and not with a payload of a matching type that was pushed
\* while the subscription was registered but whose call completed after
\* unsubscribe
C17_Witness ==
    \E n \in NotificationIds, m \in NotificationIds :
        /\ heard[n].count = 1
        /\ <<n, "webhook">> \in DOMAIN deliveries
        /\ deliveries[<<n, "webhook">>] = "failed"
        /\ heard[m].pushed = "registered"
        /\ heard[m].emitted = "removed"
        /\ notifications[m].type \in subscription.types
        /\ calls[m] = "resolved"
        /\ heard[m].count = 0

\* C19: a payload clearQueue discarded is in the queue no more, is not the
\* one a drain loop is delivering and has been handed to no channel, for
\* ever; a clearQueue call that discards payloads discards the whole queue
\* and leaves the running drain loop, its flag, the deliveries, the channels
\* and the calls as they are; and a drain loop whose delivery has settled
\* while the queue is empty ends, when it goes on, with the flag reset.
C19_ClearQueueDiscards ==
    /\ [](\A n \in discarded :
            /\ n \notin SeqToSet(queue)
            /\ HandedTo(n) = {}
            /\ \A loop \in loops : loop.notification # n)
    /\ [][discarded' # discarded =>
            /\ discarded' = discarded \cup SeqToSet(queue)
            /\ queue' = <<>>
            /\ loops' = loops
            /\ nsProcessing' = nsProcessing
            /\ deliveries' = deliveries
            /\ channels' = channels
            /\ calls' = calls]_vars
    /\ [][queue = <<>> /\ loops' # loops /\ (\E loop \in loops : loop.pending = {}) =>
            /\ loops' = {}
            /\ nsProcessing' = FALSE
            /\ deliveries' = deliveries]_vars

\* C19 case: a queued payload was discarded while an earlier one was being
\* delivered over the webhook; that delivery succeeded afterwards and the
\* drain loop has ended with the flag reset
C19_Witness ==
    \E n \in discarded : \E m \in NotificationIds \ discarded :
        /\ m < n
        /\ <<m, "webhook">> \in DOMAIN deliveries
        /\ deliveries[<<m, "webhook">>] = "ok"
        /\ calls[m] = "resolved"
        /\ loops = {}
        /\ ~nsProcessing

\* C20: the registry holds, for every id, exactly the configuration of the
\* last addChannel call with that id that no removeChannel call followed; the
\* step that shifts a payload off the queue hands it to exactly the channels
\* that match it in the registry of that moment, so a channel that is removed
\* or disabled by then receives nothing and one added by then receives it,
\* whatever matched when the payload was pushed; and a change of the
\* registry leaves the deliveries already started as they are.
C20_RegistryAtPop ==
    /\ [](channels = written)
    /\ [][\A n \in 1..Len(notifications') :
            Popped(n)' /\ ~Popped(n) =>
                /\ HandedTo(n)' =
                     {id \in DOMAIN written :
                         /\ written[id].enabled
                         /\ \/ written[id].filters = NoFilters
                            \/ notifications'[n].type \in written[id].filters}
                /\ \A id \in ChannelIds :
                     id \notin DOMAIN written => id \notin HandedTo(n)'
                /\ \A id \in DOMAIN written :
                     ~written[id].enabled => id \notin HandedTo(n)']_vars
    /\ [][channels' # channels => deliveries' = deliveries /\ loops' = loops]_vars

\* C20 case: a payload was pushed while the websocket channel and an enabled
\* webhook channel matched it; before it was shifted off the queue the
\* websocket channel was removed, the webhook channel was replaced by a
\* disabled one and the audit channel was added; it was handed to the audit
\* channel only
C20_Witness ==
    \E n \in NotificationIds :
        /\ n <= Len(matchedAtPush)
        /\ matchedAtPush[n] = {"websocket", "webhook"}
        /\ Popped(n)
        /\ HandedTo(n) = {"audit"}

\* C22: payloads are delivered in the order of their sendNotification calls,
\* whatever their priority field says: the queue holds the payloads in the
\* order in which they were sent, and a step that hands a payload to the
\* channels hands over the one sent earliest among the payloads that were
\* waiting (every payload sent before it has left the queue and none of those
\* is handed over later).
C22_FifoDelivery ==
    /\ [](\A i, j \in 1..Len(queue) : i < j => queue[i] < queue[j])
    /\ [][\A loop \in loops' :
            (\A other \in loops : other.notification # loop.notification) =>
                /\ \A m \in SeqToSet(queue) \cup SeqToSet(queue') :
                     m # loop.notification => loop.notification < m
                /\ \A m \in 1..Len(notifications) :
                     m > loop.notification =>
                        /\ HandedTo(m) = {}
                        /\ \A done \in loops : done.notification # m]_vars

\* C22 case: the payload of priority 'normal' is being
\* delivered by the drain the first call started, and the payload of priority
\* 'high' sent after it is the whole queue
C22_Witness ==
    /\ Len(notifications) = 3
    /\ notifications[2].priority = "normal"
    /\ notifications[3].priority = "high"
    /\ queue = <<3>>
    /\ \E loop \in loops : loop.caller = 1 /\ loop.notification = 2

\* C25: as long as a channel delivery of the payload a drain loop has taken
\* has not settled, the drain-active flag is true, the sendNotification call
\* that started the drain has not completed, and every payload sent after
\* the one being delivered has been handed to no channel: it waits in the
\* queue or was removed by clearQueue.
C25_UnsettledDeliveryStallsDrain ==
    \A loop \in loops :
        loop.pending # {} =>
            /\ nsProcessing
            /\ calls[loop.caller] = "awaiting"
            /\ \A id \in loop.pending : deliveries[<<loop.notification, id>>] = "pending"
            /\ \A n \in NotificationIds :
                 n > loop.notification =>
                    /\ HandedTo(n) = {}
                    /\ n \in SeqToSet(queue) \/ n \in discarded
                    /\ \A other \in loops : other.notification # n

\* C25 case: of the two webhook deliveries of a payload one has settled and
\* the other has not, and a payload sent later waits in the queue although
\* its sendNotification call has returned
C25_Witness ==
    \E loop \in loops :
        /\ Cardinality(HandedTo(loop.notification)) >= 3
        /\ Cardinality(loop.pending) = 1
        /\ \E n \in SeqToSet(queue) : n > loop.notification /\ calls[n] = "resolved"

\* C26: in every state in which the drain-active flag is false the queue is
\* empty; the flag is true exactly while a drain loop exists, and every
\* payload in the queue was sent after the payload that loop is delivering,
\* so the loop has yet to reach it.
C26_NoStrandedNotification ==
    /\ ~nsProcessing => queue = <<>>
    /\ nsProcessing <=> loops # {}
    /\ \A n \in SeqToSet(queue) :
         /\ n \notin discarded
         /\ \E loop \in loops : loop.notification < n

\* C26 case: a payload sent while the last delivery of the running drain had
\* settled, but before the loop went on, has been taken out of the queue by
\* that drain, which is about to end with the queue empty
C26_Witness ==
    /\ queue = <<>>
    /\ discarded = {}
    /\ \E loop \in loops :
         /\ loop.caller < loop.notification
         /\ loop.pending = {}
         /\ calls[loop.notification] = "resolved"
         /\ calls[loop.caller] = "awaiting"

\* C29 as stated: a request whose signature is missing or invalid is
\* answered 401 and calls neither sendNotification nor the SessionManager; a
\* validly signed request calls sendNotification at most once and with its
\* own type, not at all when its type is session_ping or unknown, and exactly
\* once by the time it is answered when its type is session_proposal,
\* session_request, session_delete or session_update.
C29_OnlyAuthenticatedEventsNotify ==
    \A w \in 1..Len(webhooks) :
        LET request == webhooks[w]
            notified == {"session_proposal", "session_request", "session_delete",
                         "session_update"}
        IN  /\ request.signature # "valid" =>
                 /\ request.status = 401
                 /\ request.sent = <<>>
                 /\ request.session = {}
            /\ request.signature = "valid" =>
                 /\ Len(request.sent) <= 1
                 /\ \A i \in 1..Len(request.sent) :
                      notifications[request.sent[i]].type = request.type
                 /\ request.type \notin notified => request.sent = <<>>
                 /\ (request.type \in notified /\ request.pc = "done") =>
                        Len(request.sent) = 1

====
